---- MODULE Spec2Model ----
(***************************************************************************)
(* A model of glicko2.py (class Player and the scale conversions).         *)
(*                                                                         *)
(* Numbers.  The program computes with binary floating point.  The model   *)
(* computes with decimal fixed point: the integer n stands for the real    *)
(* n / ONE.  Products and quotients are rounded to the nearest unit, as a  *)
(* float operation is rounded to the nearest float.  exp, log and sqrt are *)
(* computed by range reduction and series, to about one unit.  Like a      *)
(* float format the model has a largest exponent: exp raises OverflowError *)
(* above ExpMaxArg (math.exp does above 709.78), and a square that rounds  *)
(* to 0 is the model's underflow.                                          *)
(*                                                                         *)
(* Errors.  A computation that can raise returns [err, val]: err is "none" *)
(* and val the value, or err names the Python exception.                   *)
(***************************************************************************)
EXTENDS Integers, Sequences, FiniteSets, TLC

\* One unit of the fixed-point representation is 1/ONE.
ONE == 10 * 10 * 10 * 10

Abs(x) == IF x < 0 THEN -x ELSE x

Sgn(x) == IF x < 0 THEN -1 ELSE IF x > 0 THEN 1 ELSE 0

\* n / d rounded to the nearest integer (n >= 0, d > 0).
RDiv(n, d) == (n \div d) + (IF 2 * (n % d) >= d THEN 1 ELSE 0)

\* The product of two non-negative fixed-point numbers, rounded.
MulU(a, b) ==
    LET ah == a \div ONE
        al == a % ONE
        bh == b \div ONE
        bl == b % ONE
    IN  ah * bh * ONE + ah * bl + al * bh + RDiv(al * bl, ONE)

\* x * y
Mul(x, y) == Sgn(x) * Sgn(y) * MulU(Abs(x), Abs(y))

\* 10^n.
RECURSIVE Pow10(_)
Pow10(n) == IF n = 0 THEN 1 ELSE 10 * Pow10(n - 1)

\* The first n decimal digits of r / b (0 <= r < b), the last one rounded:
\* long division, one digit at a time.
RECURSIVE LongDiv(_, _, _)
LongDiv(r, b, n) ==
    IF n = 0 THEN (IF 2 * r >= b THEN 1 ELSE 0)
    ELSE ((r * 10) \div b) * Pow10(n - 1) + LongDiv((r * 10) % b, b, n - 1)

\* a / b rounded to n decimal digits, as an integer number of 10^-n
\* (a >= 0, b > 0).  A divisor too large for the digit step is cut by one
\* digit with the dividend.
QuotU(a, b, n) ==
    IF b >= 200000000 THEN
        ((a \div 10) \div (b \div 10)) * Pow10(n)
            + LongDiv((a \div 10) % (b \div 10), b \div 10, n)
    ELSE (a \div b) * Pow10(n) + LongDiv(a % b, b, n)

DivU(a, b) == QuotU(a, b, 4)

\* x / y for y # 0 (the callers raise ZeroDivisionError for y = 0).
Div(x, y) == Sgn(x) * Sgn(y) * DivU(Abs(x), Abs(y))

\* The values of _f are kept to 1/FONE: a float resolves a value near 0 far
\* more finely than the arguments of _f, which lie near ln(vol^2).
FONE == 100 * ONE

\* x / y in units of 1/FONE.
DivFine(x, y) == Sgn(x) * Sgn(y) * QuotU(Abs(x), Abs(y), 6)

\* (q, r) with x * n = q * d + r, 0 <= r < d, for x >= 0, 0 <= n < d < 2^30:
\* binary long multiplication, no intermediate above 2^31.
RECURSIVE MulMod(_, _, _)
MulMod(x, n, d) ==
    IF x = 0 THEN [q |-> 0, r |-> 0]
    ELSE LET h == MulMod(x \div 2, n, d)
             r2 == 2 * h.r + (IF x % 2 = 1 THEN n ELSE 0)
         IN  [q |-> 2 * h.q + r2 \div d, r |-> r2 % d]

\* x * n / d rounded to the nearest integer, x, n >= 0, d > 0.
MulDivU(x, n, d) ==
    LET m == MulMod(x, n % d, d)
    IN  x * (n \div d) + m.q + (IF 2 * m.r >= d THEN 1 ELSE 0)

\* x * n / d for d # 0, exactly rounded.
MulDiv(x, n, d) == Sgn(x) * Sgn(n) * Sgn(d) * MulDivU(Abs(x), Abs(n), Abs(d))

\* The floor of the square root of the integer n >= 0, by Newton's iteration
\* from a start x above the root.
RECURSIVE Newton(_, _)
Newton(n, x) ==
    LET y == (x + n \div x) \div 2
    IN  IF y >= x THEN x ELSE Newton(n, y)

ISqrt(n) ==
    IF n = 0 THEN 0
    ELSE LET r == Newton(n, IF n < 46340 THEN n ELSE 46340)
         IN  IF n - r * r > r THEN r + 1 ELSE r

\* math.sqrt(y) for y >= 0, rounded to the nearest unit where y * ONE fits.
Sqrt(y) ==
    IF y <= 200000 THEN ISqrt(y * ONE)
    ELSE IF y <= 20000000 THEN ISqrt(y * 100) * 10
    ELSE ISqrt(y) * 100

\* e^0 .. e^12 in units.
EPow == << 10000, 27183, 73891, 200855, 545982, 1484132, 4034288, 10966332,
           29809580, 81030839, 220264658, 598741417, 1627547914 >>

\* The Taylor series of e^r for 0 <= r < 1: the sum from term t = r^i / i! on.
RECURSIVE ExpSeries(_, _, _)
ExpSeries(r, t, i) ==
    IF t = 0 \/ i > 12 THEN 0
    ELSE t + ExpSeries(r, RDiv(MulU(t, r), i), i + 1)

ExpPos(x) == MulU(EPow[(x \div ONE) + 1], ExpSeries(x % ONE, ONE, 1))

\* The largest argument of exp: above it math.exp raises OverflowError.
ExpMaxArg == 5 * ONE

ExpOverflows(x) == x > ExpMaxArg

\* math.exp(x) for x <= ExpMaxArg; 0 (underflow) below -11.
Exp(x) ==
    IF x >= 0 THEN ExpPos(x)
    ELSE IF -x >= 11 * ONE THEN 0
    ELSE DivU(ONE, ExpPos(-x))

\* 2 * atanh(z) = 2 * (z + z^3/3 + z^5/5 + z^7/7 + z^9/9), 0 <= z <= 1/3.
AtanhSeries(z) ==
    LET z2 == MulU(z, z)
        z3 == MulU(z, z2)
        z5 == MulU(z3, z2)
        z7 == MulU(z5, z2)
        z9 == MulU(z7, z2)
    IN  2 * z + RDiv(2 * z3, 3) + RDiv(2 * z5, 5) + RDiv(2 * z7, 7) + RDiv(2 * z9, 9)

\* ln(y) for y > 0 with k the number of halvings so far of the argument;
\* ln 2 = 0.693147.
RECURSIVE LogReduce(_, _)
LogReduce(y, k) ==
    IF y >= 2 * ONE THEN LogReduce(RDiv(y, 2), k + 1)
    ELSE IF y < ONE THEN LogReduce(2 * y, k - 1)
    ELSE Sgn(k) * RDiv(Abs(k) * 693147, 100) + AtanhSeries(DivU(y - ONE, y + ONE))

\* math.log(y) for y > 0 (the callers raise ValueError for y <= 0).
Log(y) == LogReduce(y, 0)

----------------------------------------------------------------------------
(* The program's constants and conversions.                                *)

\* SCALE = 173.7178
SCALE == 1737178

\* math.pi
PI == 31416

\* Player._tau = 0.5
TAU == 5000

\* eps = 0.000001 in _newVol.  It lies below the resolution of the model, so
\* the tolerance is the model's smallest positive number.
EPS == 1

\* The scores of a loss, a draw and a win.
SCORES == {0, ONE \div 2, ONE}

Ok(x) == [err |-> "none", val |-> x]

Raise(e) == [err |-> e, val |-> 0]

\* math.pow(x, 2) and x ** 2
Pow2(x) == Mul(x, x)

\* Ratings and deviations on the public scale are whole numbers of points.
rating_to_mu(rating) == Div((rating - 1500) * ONE, SCALE)

mu_to_rating(mu) == Mul(mu, SCALE) + 1500 * ONE

rd_to_phi(rd) == Div(rd * ONE, SCALE)

phi_to_rd(phi) == Mul(phi, SCALE)

----------------------------------------------------------------------------
(* class Player: self is [mu, phi, vol].                                   *)

\* Player.__init__ with setRating and setRd
Player(rating, rd, vol) ==
    [mu |-> rating_to_mu(rating), phi |-> rd_to_phi(rd), vol |-> vol]

setRating(self, rating) == [self EXCEPT !.mu = rating_to_mu(rating)]

setRd(self, rd) == [self EXCEPT !.phi = rd_to_phi(rd)]

getRating(self) == mu_to_rating(self.mu)

getRd(self) == phi_to_rd(self.phi)

\* A variant of _preRatingRD that adds the volatility to the deviation
\* instead of adding the squares.
_preRatingRD_linear(self) == [self EXCEPT !.phi = self.phi + self.vol]

_preRatingRD(self) ==
    [self EXCEPT !.phi = Sqrt(Pow2(self.phi) + Pow2(self.vol))]

_g(RD) == Div(ONE, Sqrt(ONE + Div(3 * Pow2(RD), Pow2(PI))))

\* 1 / (1 + math.exp(x)), or the OverflowError of math.exp.
Logistic(x) ==
    IF ExpOverflows(x) THEN Raise("OverflowError")
    ELSE Ok(Div(ONE, ONE + Exp(x)))

_E(self, p2mu, p2phi) ==
    Logistic(Mul(Mul(-ONE, _g(p2phi)), self.mu - p2mu))

\* win_prob: the value returned, or the error raised.
win_prob(self, other) ==
    Logistic(Mul(Mul(-ONE, _g(Sqrt(Pow2(self.phi) + Pow2(other.phi)))),
                 self.mu - other.mu))

\* The loop of _v from index i on, with tempSum so far (_v_add: the body of
\* the loop once tempE is computed).
RECURSIVE _v_loop(_, _, _, _, _)
RECURSIVE _v_add(_, _, _, _, _, _)
_v_loop(self, rating_list, RD_list, i, tempSum) ==
    IF i > Len(rating_list) THEN Ok(tempSum)
    ELSE IF i > Len(RD_list) THEN Raise("IndexError")
    ELSE _v_add(self, rating_list, RD_list, i, tempSum,
                _E(self, rating_list[i], RD_list[i]))

_v_add(self, rating_list, RD_list, i, tempSum, tempE) ==
    IF tempE.err # "none" THEN tempE
    ELSE _v_loop(self, rating_list, RD_list, i + 1,
                 tempSum + Mul(Mul(Pow2(_g(RD_list[i])), tempE.val),
                               ONE - tempE.val))

\* return 1 / tempSum
_v_return(tempSum) ==
    IF tempSum.err # "none" THEN tempSum
    ELSE IF tempSum.val = 0 THEN Raise("ZeroDivisionError")
    ELSE Ok(Div(ONE, tempSum.val))

_v(self, rating_list, RD_list) ==
    _v_return(_v_loop(self, rating_list, RD_list, 1, 0))

\* The loop of _delta and of update_player: the sum over the games of
\* g(RD_i) * (outcome_i - E_i), from index i on (_sum_add: the body of the
\* loop once E_i is computed).
RECURSIVE _sum_loop(_, _, _, _, _, _)
RECURSIVE _sum_add(_, _, _, _, _, _, _)
_sum_loop(self, rating_list, RD_list, outcome_list, i, tempSum) ==
    IF i > Len(rating_list) THEN Ok(tempSum)
    ELSE IF i > Len(RD_list) \/ i > Len(outcome_list) THEN Raise("IndexError")
    ELSE _sum_add(self, rating_list, RD_list, outcome_list, i, tempSum,
                  _E(self, rating_list[i], RD_list[i]))

_sum_add(self, rating_list, RD_list, outcome_list, i, tempSum, E) ==
    IF E.err # "none" THEN E
    ELSE _sum_loop(self, rating_list, RD_list, outcome_list, i + 1,
                   tempSum + Mul(_g(RD_list[i]), outcome_list[i] - E.val))

\* return v * tempSum
_delta_return(v, tempSum) ==
    IF tempSum.err # "none" THEN tempSum ELSE Ok(Mul(v, tempSum.val))

_delta(self, rating_list, RD_list, outcome_list, v) ==
    _delta_return(v, _sum_loop(self, rating_list, RD_list, outcome_list, 1, 0))

\* return (num1 / denom1) - ((x - a) / (self._tau ** 2)), in units of 1/FONE
_f_return(x, a, num1, denom1) ==
    IF denom1 = 0 THEN Raise("ZeroDivisionError")
    ELSE Ok(DivFine(num1, denom1) - DivFine(x - a, Pow2(TAU)))

\* _f once ex and the square next to v are computed
_f_ex(x, delta, v, a, sq, ex) ==
    _f_return(x, a, Mul(ex, Pow2(delta) - sq - v - ex), 2 * Pow2(sq + v + ex))

_f(self, x, delta, v, a) ==
    IF ExpOverflows(x) THEN Raise("OverflowError")
    ELSE _f_ex(x, delta, v, a, Pow2(self.mu), Exp(x))

\* The most iterations of a loop of _newVol the model follows.
MaxIter == 40

\* Step 2, else branch: the k the while loop ends with, from k on
\* (_newVol_k_test: the test of the loop once _f is computed).
RECURSIVE _newVol_k(_, _, _, _, _)
RECURSIVE _newVol_k_test(_, _, _, _, _, _)
_newVol_k(self, delta, v, a, k) ==
    IF k > MaxIter THEN Raise("budget")
    ELSE _newVol_k_test(self, delta, v, a, k,
                        _f(self, a - k * Sqrt(Pow2(TAU)), delta, v, a))

\* A variant of the loop test that steps k once more when the loop ends.
_newVol_k_test_late(self, delta, v, a, k, fk) ==
    IF fk.err # "none" THEN fk
    ELSE IF fk.val < 0 THEN _newVol_k(self, delta, v, a, k + 1)
    ELSE Ok(k + 1)

_newVol_k_test(self, delta, v, a, k, fk) ==
    IF fk.err # "none" THEN fk
    ELSE IF fk.val < 0 THEN _newVol_k(self, delta, v, a, k + 1)
    ELSE Ok(k)

\* B = a - k * math.sqrt(tau ** 2)
_newVol_B_k(a, k) ==
    IF k.err # "none" THEN k ELSE Ok(a - k.val * Sqrt(Pow2(TAU)))

\* Step 2: B, or the error raised.
_newVol_B(self, delta, v, a) ==
    IF Pow2(delta) > Pow2(self.phi) + v
    THEN Ok(Log(Pow2(delta) - Pow2(self.phi) - v))
    ELSE _newVol_B_k(a, _newVol_k(self, delta, v, a, 1))

\* Step 4: the A the while loop ends with, from its n-th iteration on.
\* _newVol_C is the body of the loop once C is computed, _newVol_fC once fC
\* is, _newVol_next the end of the body with the new A and fA.  The loop
\* never ends ("hang") once an iteration leaves A, B, fA and fB as they were.
\* fC * fB < 0 is decided by the signs: the float product of two non-zero
\* floats of this size is not 0.
RECURSIVE _newVol_loop(_, _, _, _, _, _, _, _, _)
RECURSIVE _newVol_C(_, _, _, _, _, _, _, _, _, _)
RECURSIVE _newVol_fC(_, _, _, _, _, _, _, _, _, _, _)
RECURSIVE _newVol_next(_, _, _, _, _, _, _, _, _, _, _, _, _)
_newVol_loop(self, delta, v, a, A, B, fA, fB, n) ==
    IF Abs(B - A) <= EPS THEN Ok(A)
    ELSE IF n >= MaxIter THEN Raise("budget")
    ELSE IF fB - fA = 0 THEN Raise("ZeroDivisionError")
    ELSE _newVol_C(self, delta, v, a, A, B, fA, fB, n,
                   A + MulDiv(A - B, fA, fB - fA))

_newVol_C(self, delta, v, a, A, B, fA, fB, n, C) ==
    _newVol_fC(self, delta, v, a, A, B, fA, fB, n, C, _f(self, C, delta, v, a))

_newVol_fC(self, delta, v, a, A, B, fA, fB, n, C, fC) ==
    IF fC.err # "none" THEN fC
    ELSE IF Sgn(fC.val) * Sgn(fB) < 0
    THEN _newVol_next(self, delta, v, a, A, B, fA, fB, n, B, C, fB, fC.val)
    ELSE _newVol_next(self, delta, v, a, A, B, fA, fB, n,
                      A, C, Div(fA, 2 * ONE), fC.val)

_newVol_next(self, delta, v, a, A, B, fA, fB, n, A2, B2, fA2, fB2) ==
    IF << A2, B2, fA2, fB2 >> = << A, B, fA, fB >> THEN Raise("hang")
    ELSE _newVol_loop(self, delta, v, a, A2, B2, fA2, fB2, n + 1)

\* Step 5: return math.exp(A / 2)
_newVol_step5(A) ==
    IF A.err # "none" THEN A ELSE Ok(Exp(Div(A.val, 2 * ONE)))

\* Steps 3 and 4, with the B of step 2
_newVol_step3(self, delta, v, a, B, fA, fB) ==
    IF fA.err # "none" THEN fA
    ELSE IF fB.err # "none" THEN fB
    ELSE _newVol_step5(_newVol_loop(self, delta, v, a, a, B, fA.val, fB.val, 0))

_newVol_B_done(self, delta, v, a, B) ==
    IF B.err # "none" THEN B
    ELSE _newVol_step3(self, delta, v, a, B.val,
                       _f(self, a, delta, v, a), _f(self, B.val, delta, v, a))

\* Step 2, with the a of step 1
_newVol_step2(self, v, a, delta) ==
    IF delta.err # "none" THEN delta
    ELSE _newVol_B_done(self, delta.val, v, a,
                        _newVol_B(self, delta.val, v, a))

_newVol(self, rating_list, RD_list, outcome_list, v) ==
    IF Pow2(self.vol) <= 0 THEN Raise("ValueError")
    ELSE _newVol_step2(self, v, Log(Pow2(self.vol)),
                       _delta(self, rating_list, RD_list, outcome_list, v))

\* update_player returns the object after the call and the error the call
\* raised.  An error leaves the object as the statements before it wrote it.
Result(self, err) == [self |-> self, err |-> err]

\* self.mu += math.pow(self.phi, 2) * tempSum
update_mu(self, tempSum) ==
    IF tempSum.err # "none" THEN Result(self, tempSum.err)
    ELSE Result([self EXCEPT !.mu = @ + Mul(Pow2(self.phi), tempSum.val)], "none")

\* The loop for tempSum reads the object as written so far.
update_tempSum(self, rating_list, RD_list, outcome_list) ==
    update_mu(self, _sum_loop(self, rating_list, RD_list, outcome_list, 1, 0))

\* self.phi = 1 / math.sqrt((1 / math.pow(self.phi, 2)) + (1 / v))
update_phi(self, v) ==
    IF Pow2(self.phi) = 0 \/ v = 0 THEN Raise("ZeroDivisionError")
    ELSE IF Sqrt(Div(ONE, Pow2(self.phi)) + Div(ONE, v)) = 0
    THEN Raise("ZeroDivisionError")
    ELSE Ok(Div(ONE, Sqrt(Div(ONE, Pow2(self.phi)) + Div(ONE, v))))

update_phi_done(self, rating_list, RD_list, outcome_list, phi) ==
    IF phi.err # "none" THEN Result(self, phi.err)
    ELSE update_tempSum([self EXCEPT !.phi = phi.val],
                        rating_list, RD_list, outcome_list)

\* self._preRatingRD() and the statements after it
update_preRatingRD(self, rating_list, RD_list, outcome_list, v) ==
    update_phi_done(self, rating_list, RD_list, outcome_list, update_phi(self, v))

\* A variant of update_vol that widens the deviation before the result of
\* _newVol is looked at.
update_vol_widen_first(self, rating_list, RD_list, outcome_list, v, vol) ==
    IF vol.err # "none" THEN Result(_preRatingRD(self), vol.err)
    ELSE update_preRatingRD(_preRatingRD([self EXCEPT !.vol = vol.val]),
                            rating_list, RD_list, outcome_list, v)

\* A variant of update_vol that widens the deviation with the volatility of
\* before the call and stores the new volatility afterwards.
update_vol_old_volatility(self, rating_list, RD_list, outcome_list, v, vol) ==
    IF vol.err # "none" THEN Result(self, vol.err)
    ELSE update_preRatingRD([_preRatingRD(self) EXCEPT !.vol = vol.val],
                            rating_list, RD_list, outcome_list, v)

\* self.vol = self._newVol(...) and the statements after it
update_vol(self, rating_list, RD_list, outcome_list, v, vol) ==
    IF vol.err # "none" THEN Result(self, vol.err)
    ELSE update_preRatingRD(_preRatingRD([self EXCEPT !.vol = vol.val]),
                            rating_list, RD_list, outcome_list, v)

\* v = self._v(...) and the statements after it
update_v(self, rating_list, RD_list, outcome_list, v) ==
    IF v.err # "none" THEN Result(self, v.err)
    ELSE update_vol(self, rating_list, RD_list, outcome_list, v.val,
                    _newVol(self, rating_list, RD_list, outcome_list, v.val))

update_converted(self, rating_list, RD_list, outcome_list) ==
    update_v(self, rating_list, RD_list, outcome_list,
             _v(self, rating_list, RD_list))

update_player(self, rating_list, RD_list, outcome_list) ==
    update_converted(self,
                     [i \in 1..Len(rating_list) |-> rating_to_mu(rating_list[i])],
                     [i \in 1..Len(RD_list) |-> rd_to_phi(RD_list[i])],
                     outcome_list)

did_not_compete(self) == _preRatingRD(self)

----------------------------------------------------------------------------
(* The state: the Player objects, and the last call made (its arguments,   *)
(* the objects before it, the error it raised and the value it returned).  *)

VARIABLES players, last, ncalls

vars == << players, last, ncalls >>

\* The Player objects.
PlayerIds == {1, 2}

\* The most calls made on the objects after their construction.
MaxCalls == 2

\* Arguments of setRating and setRd, in points.
Ratings == {1700}

Rds == {350, 0}

\* The objects constructed: the default deviation with a volatility near 1,
\* with the volatility of Glickman's example and with volatility 0, and
\* deviation 0.
Constructed ==
    { Player(1500, 350, 10153), Player(1500, 350, 600),
      Player(1500, 350, 0), Player(1500, 0, 600) }

\* The second object constructed: a stronger player of known strength.
Second == Player(1700, 30, 600)

Game(rating_list, RD_list, outcome_list) ==
    [rating_list |-> rating_list, RD_list |-> RD_list,
     outcome_list |-> outcome_list]

\* Arguments of update_player: the three games of Glickman's example; a draw
\* with an equal opponent; no game; a score that is none of SCORES; fewer
\* ratings than deviations and outcomes; fewer outcomes than ratings.
Games ==
    { Game(<< 1400, 1550, 1700 >>, << 30, 100, 300 >>, << ONE, 0, 0 >>),
      Game(<< 1500 >>, << 300 >>, << ONE \div 2 >>),
      Game(<< >>, << >>, << >>),
      Game(<< 1400 >>, << 30 >>, << 2 * ONE >>),
      Game(<< 1400 >>, << 30, 100, 300 >>, << ONE, 0, 0 >>),
      Game(<< 1400, 1550, 1700 >>, << 30, 100, 300 >>, << ONE >>) }

NoGames == Game(<< >>, << >>, << >>)

Call(op, i, j, arg, games, err, ret) ==
    [op |-> op, i |-> i, j |-> j, arg |-> arg, games |-> games,
     pre |-> players, err |-> err, ret |-> ret]

\* A call that never returns leaves nothing to run after it.
Running == last.err \notin {"hang", "budget"} /\ ncalls < MaxCalls

Init ==
    /\ \E p \in Constructed :
          players = [i \in PlayerIds |-> IF i = 1 THEN p ELSE Second]
    /\ last = [op |-> "init", i |-> 0, j |-> 0, arg |-> 0, games |-> NoGames,
               pre |-> players, err |-> "none", ret |-> 0]
    /\ ncalls = 0

SetRating(i, rating) ==
    /\ Running
    /\ players' = [players EXCEPT ![i] = setRating(@, rating)]
    /\ last' = Call("setRating", i, 0, rating, NoGames, "none", 0)
    /\ ncalls' = ncalls + 1

SetRd(i, rd) ==
    /\ Running
    /\ players' = [players EXCEPT ![i] = setRd(@, rd)]
    /\ last' = Call("setRd", i, 0, rd, NoGames, "none", 0)
    /\ ncalls' = ncalls + 1

UpdatePlayer(i, games) ==
    /\ Running
    /\ \E u \in {update_player(players[i], games.rating_list, games.RD_list,
                                games.outcome_list)} :
          /\ players' = [players EXCEPT ![i] = u.self]
          /\ last' = Call("update_player", i, 0, 0, games, u.err, 0)
    /\ ncalls' = ncalls + 1

DidNotCompete(i) ==
    /\ Running
    /\ players' = [players EXCEPT ![i] = did_not_compete(@)]
    /\ last' = Call("did_not_compete", i, 0, 0, NoGames, "none", 0)
    /\ ncalls' = ncalls + 1

\* A variant of WinProb that widens the deviation of the other object.
WinProb_widening(i, j) ==
    /\ Running
    /\ \E w \in {win_prob(players[i], players[j])} :
          last' = Call("win_prob", i, j, 0, NoGames, w.err, w.val)
    /\ players' = [players EXCEPT ![j] = _preRatingRD(@)]
    /\ ncalls' = ncalls + 1

WinProb(i, j) ==
    /\ Running
    /\ \E w \in {win_prob(players[i], players[j])} :
          last' = Call("win_prob", i, j, 0, NoGames, w.err, w.val)
    /\ UNCHANGED players
    /\ ncalls' = ncalls + 1

Next ==
    \/ \E i \in PlayerIds, rating \in Ratings : SetRating(i, rating)
    \/ \E i \in PlayerIds, rd \in Rds : SetRd(i, rd)
    \/ \E i \in PlayerIds, games \in Games : UpdatePlayer(i, games)
    \/ \E i \in PlayerIds : DidNotCompete(i)
    \/ \E i \in PlayerIds, j \in PlayerIds : WinProb(i, j)

Spec == Init /\ [][Next]_vars

----------------------------------------------------------------------------
(* Properties.  Each is stated on the last call made: the object it was    *)
(* made on before the call (Before) and after it (After).                  *)

Updated == last.op = "update_player"

Before == last.pre[last.i]

After == players[last.i]

\* A call that raised an exception.
Raised == last.err \notin {"none", "hang", "budget"}

\* The lists of the last update_player as lines 103 and 104 convert them.
mu_list ==
    [k \in 1..Len(last.games.rating_list) |->
        rating_to_mu(last.games.rating_list[k])]

phi_list ==
    [k \in 1..Len(last.games.RD_list) |-> rd_to_phi(last.games.RD_list[k])]

outcomes == last.games.outcome_list

SameLengths ==
    /\ Len(last.games.rating_list) = Len(last.games.RD_list)
    /\ Len(last.games.rating_list) = Len(outcomes)

InvalidScore == \E k \in 1..Len(outcomes) : outcomes[k] \notin SCORES

\* No loop of _newVol is cut by MaxIter: what the model follows is what the
\* program does.
BudgetNeverSpent == last.err # "budget"

\* C1: an update whose outcomes hold a score outside {0, 0.5, 1} leaves mu,
\* phi and vol of the competitor as they were before the call.
C1_InvalidScoreLeavesState ==
    (Updated /\ InvalidScore) => players = last.pre

\* C2: an update that ends in an error has written no field: mu, phi and vol
\* of every competitor are as they were before the call.
C2_FailedUpdateWritesNothing ==
    (Updated /\ Raised) => players = last.pre

\* C2 witness: the update with no game raised the division by zero of _v.
C2_EmptyUpdateRaised ==
    /\ Updated
    /\ Len(outcomes) = 0
    /\ last.err = "ZeroDivisionError"
    /\ Before.vol > 0

\* C3: every call of the volatility solver finishes: no update is left
\* running in a loop of _newVol for ever.
C3_SolverFinishes ==
    Updated => last.err # "hang"

C5_PhiPositive ==
    \A p \in PlayerIds : players[p].phi > 0

\* C6: an update whose three lists do not all have the same length is
\* rejected with an error and leaves mu, phi and vol unchanged.
C6_MismatchRejected ==
    (Updated /\ ~SameLengths) => (Raised /\ players = last.pre)

\* C7: win_prob is read-only: mu, phi and vol of both competitors (and of
\* every other) are the same after the call as before.
C7_WinProbReadOnly ==
    last.op = "win_prob" => players = last.pre

\* C7 witness: win_prob of a competitor against itself has returned 0.5
\* after another call.
C7_WinProbOfSelf ==
    /\ last.op = "win_prob"
    /\ last.i = last.j
    /\ ncalls = 2
    /\ last.err = "none"
    /\ last.ret = ONE \div 2

\* The reference composition of C8 on the state before the call: v and the
\* new volatility from the phi and mu of before, phi widened with the new
\* volatility and combined with v, mu moved by phi_new^2 times the sum with
\* every E_i at the mu of before.
C8_v == _v(Before, mu_list, phi_list).val

C8_vol == _newVol(Before, mu_list, phi_list, outcomes, C8_v).val

C8_phi ==
    Div(ONE, Sqrt(Div(ONE, Pow2(Sqrt(Pow2(Before.phi) + Pow2(C8_vol))))
                  + Div(ONE, C8_v)))

C8_mu ==
    Before.mu + Mul(Pow2(C8_phi),
                    _sum_loop(Before, mu_list, phi_list, outcomes, 1, 0).val)

\* C8: after a successful update the competitor's (vol, phi, mu) is the
\* reference composition applied to its state before the call, and no other
\* competitor has changed.
C8_UpdateIsReferenceComposition ==
    (Updated /\ last.err = "none") =>
        /\ After = [mu |-> C8_mu, phi |-> C8_phi, vol |-> C8_vol]
        /\ \A p \in PlayerIds \ {last.i} : players[p] = last.pre[p]

\* C8 witness: a successful update with the three games of Glickman's
\* example has changed the volatility, the deviation and the rating.
C8_UpdatedAll ==
    /\ Updated
    /\ last.err = "none"
    /\ Len(outcomes) = 3
    /\ SameLengths
    /\ After.vol # Before.vol
    /\ After.phi # Before.phi
    /\ After.mu # Before.mu

\* The f of the specification: the square next to v is that of phi.
C9_f(phi, x, delta, v, a) ==
    Ok(DivFine(Mul(Exp(x), Pow2(delta) - Pow2(phi) - v - Exp(x)),
               2 * Pow2(Pow2(phi) + v + Exp(x)))
       - DivFine(x - a, Pow2(TAU)))

\* C9: the f the solver of an update evaluates is the f of the
\* specification with the competitor's phi of before the call, at the ends
\* of the first bracket and between them.
C9_FUsesDeviation ==
    (Updated /\ last.err = "none") =>
        LET a == Log(Pow2(Before.vol))
            delta == _delta(Before, mu_list, phi_list, outcomes, C8_v).val
        IN  \A x \in {a, a - TAU, a - 2 * TAU} :
               _f(Before, x, delta, C8_v, a) = C9_f(Before.phi, x, delta, C8_v, a)

\* The quantities of step 2 of the solver in the last update.
C10_a == Log(Pow2(Before.vol))

C10_delta == _delta(Before, mu_list, phi_list, outcomes, C8_v).val

C10_B == _newVol_B(Before, C10_delta, C8_v, C10_a).val

C10_f(k) == _f(Before, C10_a - k * TAU, C10_delta, C8_v, C10_a).val

C10_LogBranch == Pow2(C10_delta) > Pow2(Before.phi) + C8_v

\* The update got past step 2 of the solver.
C10_Step2Done == Updated /\ last.err \in {"none", "hang"}

\* C10 as stated: B0 = ln(delta^2 - phi^2 - v) when delta^2 > phi^2 + v,
\* else B0 = a - k * tau with k the smallest k >= 1 such that
\* f(a - k * tau) < 0.
C10_BracketEndNegative ==
    C10_Step2Done =>
        IF C10_LogBranch
        THEN C10_B = Log(Pow2(C10_delta) - Pow2(Before.phi) - C8_v)
        ELSE \E k \in 1..MaxIter :
                /\ C10_B = C10_a - k * TAU
                /\ C10_f(k) < 0
                /\ \A j \in 1..(k - 1) : ~(C10_f(j) < 0)

\* C10 amended: B0 = ln(delta^2 - phi^2 - v) when delta^2 > phi^2 + v, else
\* B0 = a - k * tau with k the smallest k >= 1 such that
\* f(a - k * tau) >= 0.
C10_BracketEnd ==
    C10_Step2Done =>
        IF C10_LogBranch
        THEN C10_B = Log(Pow2(C10_delta) - Pow2(Before.phi) - C8_v)
        ELSE \E k \in 1..MaxIter :
                /\ C10_B = C10_a - k * TAU
                /\ C10_f(k) >= 0
                /\ \A j \in 1..(k - 1) : C10_f(j) < 0

\* C10 witness: an update took the second branch of step 2 and finished.
C10_SearchedBracketEnd ==
    /\ Updated
    /\ last.err = "none"
    /\ ~C10_LogBranch
    /\ C10_B < C10_a

\* An update took the first branch of step 2 and finished.
C10_LogBracketEnd ==
    /\ Updated
    /\ last.err = "none"
    /\ C10_LogBranch

====
